---- MODULE Spec2Model ----
(***************************************************************************)
(* Verification model of reminder_ai: the greedy interval scheduler        *)
(* (planner.build_schedule), the daily dueness check and carryover rule    *)
(* (jobs.py) and the daily cycle coordinator (bot.BotApp._daily_tick and   *)
(* _evening_check over storage.Storage), and the two task classifiers       *)
(* (prioritizer.py).                                                       *)
(*                                                                         *)
(* Time is counted in whole seconds.  A local time of day is a record      *)
(* [hour, minute, second]; an instant is the number of seconds since       *)
(* midnight of day 0 in the user's zone; a calendar day is an integer.     *)
(***************************************************************************)
EXTENDS Integers, Sequences, FiniteSets, TLC

VARIABLES
    \* ---- planner.build_schedule: inputs and result
    sTasks,        \* tasks argument: sequence of PlanTask
    sWindow,       \* window argument: PlanWindow
    sDay,          \* day argument
    sBlocks,       \* returned list of ScheduledBlock
    sPc,           \* "idle" (not this specification) | "call" | "done"
    \* ---- jobs.due_for_daily_send and jobs.carryover_priority: inputs, results
    dArgs,         \* [now, today, when_local, last_sent_day, window_minutes]
    dResult,       \* returned DueCheck, or NoResult before the call
    cArg,          \* the Priority passed to carryover_priority
    cResult,       \* returned Priority, or NoPriority before the call
    pPc,           \* "idle" (not this specification) | "call"
    \* ---- prioritizer.Prioritizer.prioritize: inputs, service reply, result
    kVariant,      \* "heuristic" | "openai": build_prioritizer_from_env
    kDrafts,       \* drafts argument: sequence of TaskDraft
    kToday,        \* today argument
    kNow,          \* datetime.now(tz) inside prioritize
    kReply,        \* what the chat completion call came back with
    kResult,       \* what prioritize handed to its caller, or NoResult
    kPc,           \* "idle" | "call" | "awaiting" (the service) | "done"
    \* ---- bot.BotApp over storage.Storage: the daily cycle coordinator
    clock,         \* datetime.now(tz): the current instant
    cronFired,     \* whether the "daily-tick" job has fired at this instant
    user_rows,     \* table users: user id -> User row
    user_state,    \* table user_state: user id -> row, or NoRow
    task_rows,     \* table tasks: the set of rows
    next_id,       \* the next AUTOINCREMENT id of table tasks
    awaiting,      \* BotApp._awaiting_tasks
    ticks,         \* the _daily_tick coroutines: slot -> frame
    sent           \* <<user, slot, day>> -> number of notifications delivered

schedVars == <<sTasks, sWindow, sDay, sBlocks, sPc>>

pureVars == <<dArgs, dResult, cArg, cResult, pPc>>

botVars ==
    <<clock, cronFired, user_rows, user_state, task_rows, next_id, awaiting,
      ticks, sent>>

classVars == <<kVariant, kDrafts, kToday, kNow, kReply, kResult, kPc>>

vars == <<schedVars, pureVars, botVars, classVars>>

\* ------------------------------------------------------------------------
\* Values
\* ------------------------------------------------------------------------

\* Optional[time] None and Optional[date] None
NoTime == [none |-> TRUE]

NoDay == 0 - 1

URGENT == "urgent"

IMPORTANT == "important"

OPTIONAL == "optional"

Priority == {URGENT, IMPORTANT, OPTIONAL}

PENDING == "pending"

DONE == "done"

SKIPPED == "skipped"

TaskStatus == {PENDING, DONE, SKIPPED}

SecondsPerMinute == 60 * 1

SecondsPerDay == 24 * 60 * 60

\* datetime.time(hour, minute)
Time(h, m) == [hour |-> h, minute |-> m, second |-> 0]

\* timedelta(minutes=n), in seconds
Minutes(n) == n * SecondsPerMinute

\* datetime.combine(day, t, tzinfo=tz): the instant of local time t on day
Combine(day, t) ==
    day * SecondsPerDay + t.hour * 3600 + t.minute * 60 + t.second

\* datetime.date(): the calendar day of an instant
DateOf(instant) == instant \div SecondsPerDay

Max(a, b) == IF a >= b THEN a ELSE b

NoResult == [none |-> TRUE]

\* no Priority (yet)
NoPriority == "none"

\* ------------------------------------------------------------------------
\* Each specification drives one part of the program; the variables of the
\* other parts stay at these values.
\* ------------------------------------------------------------------------

SchedIdle ==
    /\ sTasks = <<>>
    /\ sWindow = NoResult
    /\ sDay = 0
    /\ sBlocks = <<>>
    /\ sPc = "idle"

PureIdle ==
    /\ dArgs = NoResult
    /\ dResult = NoResult
    /\ cArg = NoPriority
    /\ cResult = NoPriority
    /\ pPc = "idle"

ClassIdle ==
    /\ kVariant = "none"
    /\ kDrafts = <<>>
    /\ kToday = 0
    /\ kNow = 0
    /\ kReply = NoResult
    /\ kResult = NoResult
    /\ kPc = "idle"

BotIdle ==
    /\ clock = 0
    /\ cronFired = FALSE
    /\ user_rows = <<>>
    /\ user_state = <<>>
    /\ task_rows = {}
    /\ next_id = 1
    /\ awaiting = {}
    /\ ticks = <<>>
    /\ sent = <<>>

\* ------------------------------------------------------------------------
\* planner.build_schedule
\* ------------------------------------------------------------------------

PlanTask(id, title, est, due, prio) ==
    [task_id |-> id, title |-> title, estimated_minutes |-> est,
     due_local_time |-> due, priority |-> prio]

PlanWindow(start, end, brk) ==
    [start_local |-> start, end_local |-> end, break_minutes |-> brk]

\* PlanWindow(): the dataclass defaults
DefaultPlanWindow == PlanWindow(Time(9, 0), Time(18, 0), 5)

prio_rank(p) ==
    CASE p = URGENT -> 0
      [] p = IMPORTANT -> 1
      [] p = OPTIONAL -> 2

due_rank(t) ==
    IF t.due_local_time = NoTime
    THEN <<1, 0>>
    ELSE <<0, t.due_local_time.hour * 60 + t.due_local_time.minute>>

\* mutant: the due-time rank left out of the sort key
SortKey_NoDueRank(t) ==
    <<prio_rank(t.priority), 0, 0, t.estimated_minutes, t.task_id>>

\* mutant: the task id left out of the sort key
SortKey_NoTaskId(t) ==
    <<prio_rank(t.priority), due_rank(t)[1], due_rank(t)[2],
      t.estimated_minutes, 0>>

\* mutant: the priority rank left out of the sort key
SortKey_NoPriority(t) ==
    <<0, due_rank(t)[1], due_rank(t)[2], t.estimated_minutes, t.task_id>>

\* key=lambda t: (prio_rank, due_rank, estimated_minutes, task_id)
SortKey(t) ==
    <<prio_rank(t.priority), due_rank(t)[1], due_rank(t)[2],
      t.estimated_minutes, t.task_id>>

\* Python tuple comparison a < b (lexicographic), tuples of equal length
RECURSIVE TupleLess(_, _)
TupleLess(a, b) ==
    IF a = <<>> THEN FALSE
    ELSE IF Head(a) # Head(b) THEN Head(a) < Head(b)
    ELSE TupleLess(Tail(a), Tail(b))

\* insert t behind every element whose key is not greater (stable)
RECURSIVE InsertByKey(_, _)
InsertByKey(t, acc) ==
    IF acc = <<>> THEN <<t>>
    ELSE IF TupleLess(SortKey(t), SortKey(Head(acc)))
         THEN <<t>> \o acc
         ELSE <<Head(acc)>> \o InsertByKey(t, Tail(acc))

\* sorted(tasks, key=...): stable, ascending
RECURSIVE SortedTasksFrom(_, _)
SortedTasksFrom(ts, acc) ==
    IF ts = <<>> THEN acc
    ELSE SortedTasksFrom(Tail(ts), InsertByKey(Head(ts), acc))

SortedTasks(ts) == SortedTasksFrom(ts, <<>>)

\* mutant: the estimate taken as it is, without the one-minute minimum
BlockDuration_Raw(t) == Minutes(t.estimated_minutes)

\* dur = timedelta(minutes=max(1, int(t.estimated_minutes)))
BlockDuration(t) == Minutes(Max(1, t.estimated_minutes))

\* mutant: no break after a block
BreakDuration_None(window) == 0

\* mutant: the break not clamped at zero
BreakDuration_Unclamped(window) == Minutes(window.break_minutes)

\* timedelta(minutes=max(0, int(window.break_minutes)))
BreakDuration(window) == Minutes(Max(0, window.break_minutes))

ScheduledBlock(t, start, end) ==
    [task_id |-> t.task_id, title |-> t.title, start_local |-> start,
     end_local |-> end, priority |-> t.priority]

\* mutant: the fit test looks at the cursor only, not at the block's end
RECURSIVE PlaceFrom_CursorOnly(_, _, _, _, _, _)
PlaceFrom_CursorOnly(ordered, i, cur, end_dt, window, blocks) ==
    IF i > Len(ordered) THEN blocks
    ELSE LET t == ordered[i]
             dur == Minutes(Max(1, t.estimated_minutes))
         IN  IF cur > end_dt THEN blocks
             ELSE LET block == [task_id |-> t.task_id, title |-> t.title,
                                start_local |-> cur, end_local |-> cur + dur,
                                priority |-> t.priority]
                      next == block.end_local
                                  + Minutes(Max(0, window.break_minutes))
                  IN  IF next >= end_dt
                      THEN Append(blocks, block)
                      ELSE PlaceFrom_CursorOnly(ordered, i + 1, next, end_dt,
                                                window, Append(blocks, block))

\* mutant: a task that does not fit is cut off at the end of the window
RECURSIVE PlaceFrom_Truncate(_, _, _, _, _, _)
PlaceFrom_Truncate(ordered, i, cur, end_dt, window, blocks) ==
    IF i > Len(ordered) THEN blocks
    ELSE LET t == ordered[i]
             dur == BlockDuration(t)
         IN  IF cur >= end_dt THEN blocks
             ELSE IF cur + dur > end_dt
             THEN Append(blocks, ScheduledBlock(t, cur, end_dt))
             ELSE LET block == ScheduledBlock(t, cur, cur + dur)
                      next == block.end_local + BreakDuration(window)
                  IN  IF next >= end_dt
                      THEN Append(blocks, block)
                      ELSE PlaceFrom_Truncate(ordered, i + 1, next, end_dt,
                                              window, Append(blocks, block))

\* mutant: a task that does not fit is skipped and the loop goes on
RECURSIVE PlaceFrom_SkipAndContinue(_, _, _, _, _, _)
PlaceFrom_SkipAndContinue(ordered, i, cur, end_dt, window, blocks) ==
    IF i > Len(ordered) THEN blocks
    ELSE LET t == ordered[i]
             dur == BlockDuration(t)
         IN  IF cur + dur > end_dt
             THEN PlaceFrom_SkipAndContinue(ordered, i + 1, cur, end_dt,
                                            window, blocks)
             ELSE LET block == ScheduledBlock(t, cur, cur + dur)
                      next == block.end_local + BreakDuration(window)
                  IN  IF next >= end_dt
                      THEN Append(blocks, block)
                      ELSE PlaceFrom_SkipAndContinue(ordered, i + 1, next,
                               end_dt, window, Append(blocks, block))

\* the for loop over ordered, from position i with cursor cur
RECURSIVE PlaceFrom(_, _, _, _, _, _)
PlaceFrom(ordered, i, cur, end_dt, window, blocks) ==
    IF i > Len(ordered) THEN blocks
    ELSE LET t == ordered[i]
             dur == BlockDuration(t)
         IN  IF cur + dur > end_dt THEN blocks
             ELSE LET block == ScheduledBlock(t, cur, cur + dur)
                      next == block.end_local + BreakDuration(window)
                  IN  IF next >= end_dt
                      THEN Append(blocks, block)
                      ELSE PlaceFrom(ordered, i + 1, next, end_dt, window,
                                     Append(blocks, block))

\* mutant: an inverted window is read with its ends swapped
build_schedule_SwapInverted(day, tasks, window) ==
    LET a == Combine(day, window.start_local)
        b == Combine(day, window.end_local)
        start_dt == IF a <= b THEN a ELSE b
        end_dt == IF a <= b THEN b ELSE a
        ordered == SortedTasks(tasks)
    IN  PlaceFrom(ordered, 1, start_dt, end_dt, window, <<>>)

build_schedule(day, tasks, window) ==
    LET start_dt == Combine(day, window.start_local)
        end_dt == Combine(day, window.end_local)
        ordered == SortedTasks(tasks)
    IN  PlaceFrom(ordered, 1, start_dt, end_dt, window, <<>>)

\* ---- inputs of the scheduler specification

MaxTasks == 2

SchedTitles == {"t"}

SchedEstimates == {0 - 1, 0, 1, 3}

SchedDues == {NoTime, Time(9, 1)}

SchedBreaks == {-1, 0, 1}

SchedWindowEnds ==
    {Time(8, 59), Time(9, 0), Time(9, 2), Time(9, 3), Time(9, 5)}

SchedWindows ==
    {PlanWindow(Time(9, 0), e, b) : e \in SchedWindowEnds, b \in SchedBreaks}

SchedTaskAttrs ==
    [title : SchedTitles, estimated_minutes : SchedEstimates,
     due_local_time : SchedDues, priority : Priority]

\* the task list of test_schedule_orders_urgent_before_optional
TestTasks ==
    << PlanTask(1, "Optional", 30, NoTime, OPTIONAL),
       PlanTask(2, "Urgent", 30, NoTime, URGENT),
       PlanTask(3, "Important", 30, NoTime, IMPORTANT) >>

\* one task longer than the default window of 540 minutes, one as long as it
WholeDayTasks ==
    { << PlanTask(1, "t", 600, NoTime, IMPORTANT) >>,
      << PlanTask(1, "t", 540, NoTime, IMPORTANT) >> }

\* assignments of pairwise distinct ids (the rows' primary keys) to positions
SchedIdOrders(n) ==
    {f \in [1..n -> 1..n] : \A i, j \in 1..n : i # j => f[i] # f[j]}

SchedTaskList(n, ids, attrs) ==
    [i \in 1..n |->
        PlanTask(ids[i], attrs[i].title, attrs[i].estimated_minutes,
                 attrs[i].due_local_time, attrs[i].priority)]

\* task lists of up to MaxTasks tasks with distinct ids in any order, under
\* every window of SchedWindows; and the test's task list and the whole-day
\* tasks, default window
SchedInit ==
    /\ sDay = 0
    /\ \/ /\ \E n \in 0..MaxTasks :
               \E ids \in SchedIdOrders(n), attrs \in [1..n -> SchedTaskAttrs] :
                   sTasks = SchedTaskList(n, ids, attrs)
          /\ sWindow \in SchedWindows
       \/ /\ sTasks \in {TestTasks} \cup WholeDayTasks
          /\ sWindow = DefaultPlanWindow
    /\ sBlocks = <<>>
    /\ sPc = "call"
    /\ PureIdle
    /\ BotIdle
    /\ ClassIdle

CallBuildSchedule ==
    /\ sPc = "call"
    /\ sBlocks' = build_schedule(sDay, sTasks, sWindow)
    /\ sPc' = "done"
    /\ UNCHANGED <<sTasks, sWindow, sDay>>
    /\ UNCHANGED <<pureVars, botVars, classVars>>

SchedNext == CallBuildSchedule

SpecSched == SchedInit /\ [][SchedNext]_vars

\* ---- inputs of the sort-order specification: tasks that all fit into the
\* default window, with two due times and two estimates

OrderDues == {NoTime, Time(10, 30), Time(17, 0)}

OrderEstimates == {30, 60}

OrderTaskAttrs ==
    [title : SchedTitles, estimated_minutes : OrderEstimates,
     due_local_time : OrderDues, priority : Priority]

OrderInit ==
    /\ sDay = 0
    /\ \E n \in 0..MaxTasks :
          \E ids \in SchedIdOrders(n), attrs \in [1..n -> OrderTaskAttrs] :
              sTasks = SchedTaskList(n, ids, attrs)
    /\ sWindow = DefaultPlanWindow
    /\ sBlocks = <<>>
    /\ sPc = "call"
    /\ PureIdle
    /\ BotIdle
    /\ ClassIdle

SpecOrder == OrderInit /\ [][SchedNext]_vars

\* ------------------------------------------------------------------------
\* jobs.due_for_daily_send and jobs.carryover_priority
\* ------------------------------------------------------------------------

DueCheck(due, scheduled) == [due_now |-> due, scheduled_dt |-> scheduled]

\* due_for_daily_send(..., window_minutes=10)
DefaultWindowMinutes == 10

\* mutant: the already-sent-today guard left out
due_for_daily_send_NoSentGuard(now, today, when_local, last_sent_day, window_minutes) ==
    LET scheduled == Combine(today, when_local)
    IN  IF now < scheduled THEN DueCheck(FALSE, scheduled)
        ELSE IF now - scheduled > Minutes(window_minutes)
             THEN DueCheck(FALSE, scheduled)
             ELSE DueCheck(TRUE, scheduled)

\* mutant: the test for "too early" left out
due_for_daily_send_NoTooEarly(now, today, when_local, last_sent_day, window_minutes) ==
    LET scheduled == Combine(today, when_local)
    IN  IF last_sent_day = today THEN DueCheck(FALSE, scheduled)
        ELSE IF now - scheduled > Minutes(window_minutes)
             THEN DueCheck(FALSE, scheduled)
             ELSE DueCheck(TRUE, scheduled)

\* mutant: the end of the grace window excluded
due_for_daily_send_ExclusiveEnd(now, today, when_local, last_sent_day, window_minutes) ==
    LET scheduled == Combine(today, when_local)
    IN  IF last_sent_day = today THEN DueCheck(FALSE, scheduled)
        ELSE IF now < scheduled THEN DueCheck(FALSE, scheduled)
        ELSE IF now - scheduled >= Minutes(window_minutes)
             THEN DueCheck(FALSE, scheduled)
             ELSE DueCheck(TRUE, scheduled)

due_for_daily_send(now, today, when_local, last_sent_day, window_minutes) ==
    LET scheduled == Combine(today, when_local)
    IN  IF last_sent_day = today THEN DueCheck(FALSE, scheduled)
        ELSE IF now < scheduled THEN DueCheck(FALSE, scheduled)
        ELSE IF now - scheduled > Minutes(window_minutes)
             THEN DueCheck(FALSE, scheduled)
             ELSE DueCheck(TRUE, scheduled)

\* mutant: Important tasks are left Important
carryover_priority_ImportantStays(p) ==
    CASE p = URGENT -> URGENT
      [] p = IMPORTANT -> IMPORTANT
      [] p = OPTIONAL -> IMPORTANT

\* mutant: Optional tasks are left Optional
carryover_priority_KeepOptional(p) ==
    CASE p = URGENT -> URGENT
      [] p = IMPORTANT -> URGENT
      [] p = OPTIONAL -> OPTIONAL

carryover_priority(p) ==
    CASE p = URGENT -> URGENT
      [] p = IMPORTANT -> URGENT
      [] p = OPTIONAL -> IMPORTANT

\* ---- inputs of the pure-function specification

MaxDay == 0

Days == 0..MaxDay

PureDays == {0, 1}

\* now: the seconds around 08:00 and its ten-minute window, on every day
PureClockTimes ==
    { [hour |-> 7, minute |-> 59, second |-> 0],
      [hour |-> 7, minute |-> 59, second |-> 59],
      [hour |-> 8, minute |-> 0, second |-> 0],
      [hour |-> 8, minute |-> 5, second |-> 0],
      [hour |-> 8, minute |-> 10, second |-> 0],
      [hour |-> 8, minute |-> 10, second |-> 1],
      [hour |-> 8, minute |-> 11, second |-> 0] }

PureWhenTimes == {Time(8, 0), Time(8, 5)}

PureWindowMinutes == {0 - 1, 0, 5, DefaultWindowMinutes}

PureInit ==
    /\ SchedIdle
    /\ BotIdle
    /\ ClassIdle
    /\ dArgs \in [now : {Combine(day, t) : day \in PureDays,
                                             t \in PureClockTimes},
                   today : PureDays,
                   when_local : PureWhenTimes,
                   last_sent_day : {NoDay} \cup PureDays,
                   window_minutes : PureWindowMinutes]
    /\ dResult = NoResult
    /\ cArg \in Priority
    /\ cResult = NoPriority
    /\ pPc = "call"

CallDueForDailySend ==
    /\ pPc = "call"
    /\ dResult = NoResult
    /\ dResult' = due_for_daily_send(dArgs.now, dArgs.today, dArgs.when_local,
                                     dArgs.last_sent_day, dArgs.window_minutes)
    /\ UNCHANGED <<dArgs, cArg, cResult, pPc>>
    /\ UNCHANGED <<schedVars, botVars, classVars>>

CallCarryoverPriority ==
    /\ pPc = "call"
    /\ cResult = NoPriority
    /\ cResult' = carryover_priority(cArg)
    /\ UNCHANGED <<dArgs, dResult, cArg, pPc>>
    /\ UNCHANGED <<schedVars, botVars, classVars>>

PureNext == CallDueForDailySend \/ CallCarryoverPriority

SpecPure == PureInit /\ [][PureNext]_vars

\* ------------------------------------------------------------------------
\* prioritizer.HeuristicPrioritizer (build_prioritizer_from_env without an
\* OPENAI_API_KEY).  A title is the tuple of its words in lower case; the
\* keyword patterns \b(...)\b with (?i) match a title that holds one of the
\* words.
\* ------------------------------------------------------------------------

TaskDraft(title, est, due) ==
    [title |-> title, estimated_minutes |-> est, due_local_time |-> due]

UrgentKeywords ==
    {"srochno", "dedlayn", "sdat", "zvonok", "sozvon", "vstrecha", "sud",
     "nalog", "oplatit"}

ImportantKeywords ==
    {"proekt", "otchet", "otchyot", "rabota", "sport", "trenirovk", "vrach",
     "ucheba", "uchyoba", "platezh", "platyozh", "schet", "schyot"}

KeywordSearch(keywords, title) == \E k \in 1..Len(title) : title[k] \in keywords

\* if mins_left <= 180
UrgentWithinMinutes == 180

\* mutant: the important keywords are looked at before the urgent ones
HeuristicPriority_ImportantFirst(d, today, now_local) ==
    LET due_dt == Combine(today, d.due_local_time)
        mins_left == (due_dt - now_local) \div 60
    IN  IF d.due_local_time # NoTime /\ mins_left <= UrgentWithinMinutes
        THEN URGENT
        ELSE IF KeywordSearch(ImportantKeywords, d.title) THEN IMPORTANT
        ELSE IF KeywordSearch(UrgentKeywords, d.title) THEN URGENT
        ELSE OPTIONAL

\* mutant: the keywords are looked at before the due time
HeuristicPriority_KeywordsFirst(d, today, now_local) ==
    LET due_dt == Combine(today, d.due_local_time)
        mins_left == (due_dt - now_local) \div 60
    IN  IF KeywordSearch(UrgentKeywords, d.title) THEN URGENT
        ELSE IF KeywordSearch(ImportantKeywords, d.title) THEN IMPORTANT
        ELSE IF d.due_local_time # NoTime /\ mins_left <= UrgentWithinMinutes
        THEN URGENT
        ELSE OPTIONAL

\* the body of "for d in drafts" of HeuristicPrioritizer.prioritize
HeuristicPriority(d, today, now_local) ==
    LET due_dt == Combine(today, d.due_local_time)
        mins_left == (due_dt - now_local) \div 60
    IN  IF d.due_local_time # NoTime /\ mins_left <= UrgentWithinMinutes
        THEN URGENT
        ELSE IF KeywordSearch(UrgentKeywords, d.title) THEN URGENT
        ELSE IF KeywordSearch(ImportantKeywords, d.title) THEN IMPORTANT
        ELSE OPTIONAL

HeuristicPrioritize(drafts, today, now_local) ==
    [k \in 1..Len(drafts) |-> HeuristicPriority(drafts[k], today, now_local)]

\* what prioritize hands to its caller: a list, or an exception
Returned(value) == [raised |-> FALSE, value |-> value]

Raised == [raised |-> TRUE]

\* ------------------------------------------------------------------------
\* prioritizer.OpenAIPrioritizer and _parse_priority_json_array.  A reply
\* text is modelled by the JSON value it denotes; a JSON string by the word
\* it spells, whether it has upper-case letters and whether it has blanks
\* around it.
\* ------------------------------------------------------------------------

JsonString(word, upper, padded) ==
    [type |-> "string", word |-> word, upper |-> upper, padded |-> padded]

JsonNumber == [type |-> "number"]

JsonArray(items) == [type |-> "array", items |-> items]

\* a text json.loads rejects
NotJson == [type |-> "invalid"]

\* message.content is None or the empty string
NoContent == [type |-> "none"]

\* x.strip().lower()
StripLower(x) == [x EXCEPT !.upper = FALSE, !.padded = FALSE]

\* Priority(x2) finds a member: x2 is exactly the value of one
IsPriorityValue(x2) ==
    /\ x2.upper = FALSE
    /\ x2.padded = FALSE
    /\ x2.word \in Priority

\* mutant: an element that is no label becomes Important, the others are kept
RECURSIVE ParseItems_PerItem(_, _, _)
ParseItems_PerItem(items, i, out) ==
    IF i > Len(items) THEN Returned(out)
    ELSE IF items[i].type # "string" THEN
             ParseItems_PerItem(items, i + 1, Append(out, IMPORTANT))
    ELSE LET x2 == StripLower(items[i])
         IN  ParseItems_PerItem(items, i + 1,
                 Append(out, IF IsPriorityValue(x2) THEN x2.word
                             ELSE IMPORTANT))

\* "for x in arr" from the i-th element on, out so far: the finished list, or
\* the ValueError of a non-string or of Priority(x2)
RECURSIVE ParseItems(_, _, _)
ParseItems(items, i, out) ==
    IF i > Len(items) THEN Returned(out)
    ELSE IF items[i].type # "string" THEN Raised
    ELSE LET x2 == StripLower(items[i])
         IN  IF IsPriorityValue(x2)
             THEN ParseItems(items, i + 1, Append(out, x2.word))
             ELSE Raised

\* the try block of _parse_priority_json_array
ParseTry(text, expected_len) ==
    IF text = NotJson THEN Raised
    ELSE IF text.type # "array" THEN Raised
    ELSE IF Len(text.items) # expected_len THEN Raised
    ELSE ParseItems(text.items, 1, <<>>)

\* except Exception: return [Priority.IMPORTANT for _ in range(expected_len)]
parse_priority_json_array(text, expected_len) ==
    LET r == ParseTry(text, expected_len)
    IN  IF r.raised THEN [k \in 1..expected_len |-> IMPORTANT] ELSE r.value

\* text = resp.choices[0].message.content or "[]"
ReplyText(content) == IF content = NoContent THEN JsonArray(<<>>) ELSE content

\* the chat completion call raised (no network, an API error, no openai
\* package to import)
ServiceError == [type |-> "error"]

\* ---- inputs of the classifier specification

MaxBatch == 2

ClassifyTitles == {<<"pochta">>, <<"otchet">>, <<"sdat", "otchet">>}

ClassifyDues == {NoTime, Time(12, 0)}

ClassifyDrafts ==
    {TaskDraft(title, 30, due) : title \in ClassifyTitles,
                                 due \in ClassifyDues}

\* now: around three hours before 12:00, and after it
ClassifyNows ==
    {Combine(0, t) :
        t \in { [hour |-> 8, minute |-> 58, second |-> 59],
                [hour |-> 8, minute |-> 59, second |-> 0],
                [hour |-> 8, minute |-> 59, second |-> 1],
                [hour |-> 9, minute |-> 0, second |-> 0],
                [hour |-> 9, minute |-> 0, second |-> 1],
                [hour |-> 12, minute |-> 30, second |-> 0] }}

\* the batch sent to the service: only its length matters to the reply parser
ServiceBatch(n) == [k \in 1..n |-> TaskDraft(<<"pochta">>, 30, NoTime)]

ReplyWords == {"urgent", "important", "optional", "high"}

ReplyItems ==
    {JsonString(word, upper, padded) :
        word \in ReplyWords, upper \in BOOLEAN, padded \in BOOLEAN}
    \cup {JsonNumber}

\* the replies to a batch of n drafts: no content, no JSON, a JSON value that
\* is no array, and the arrays of n - 1, n and n + 1 items
Replies(n) ==
    {NoContent, NotJson, JsonNumber, JsonString("urgent", FALSE, FALSE)}
    \cup {JsonArray(items) :
             items \in UNION {[1..len -> ReplyItems] :
                                 len \in {l \in {n - 1, n, n + 1} : l >= 0}}}

ClassInit ==
    /\ SchedIdle
    /\ PureIdle
    /\ BotIdle
    /\ kToday = 0
    /\ \/ /\ kVariant = "heuristic"
          /\ kNow \in ClassifyNows
          /\ \E n \in 0..MaxBatch : kDrafts \in [1..n -> ClassifyDrafts]
       \/ /\ kVariant = "openai"
          /\ kNow = Combine(0, Time(9, 0))
          /\ \E n \in 0..MaxBatch : kDrafts = ServiceBatch(n)
    /\ kReply = NoResult
    /\ kResult = NoResult
    /\ kPc = "call"

\* HeuristicPrioritizer.prioritize: no await inside, it runs to its return
CallHeuristicPrioritize ==
    /\ kPc = "call"
    /\ kVariant = "heuristic"
    /\ kResult' = Returned(HeuristicPrioritize(kDrafts, kToday, kNow))
    /\ kPc' = "done"
    /\ UNCHANGED <<kVariant, kDrafts, kToday, kNow, kReply>>
    /\ UNCHANGED <<schedVars, pureVars, botVars>>

\* OpenAIPrioritizer.prioritize up to "await client.chat.completions.create"
OpenAIRequest ==
    /\ kPc = "call"
    /\ kVariant = "openai"
    /\ kPc' = "awaiting"
    /\ UNCHANGED <<kVariant, kDrafts, kToday, kNow, kReply, kResult>>
    /\ UNCHANGED <<schedVars, pureVars, botVars>>

\* the await returns a completion: its content is parsed and returned
OpenAIReply ==
    /\ kPc = "awaiting"
    /\ \E content \in Replies(Len(kDrafts)) :
          /\ kReply' = content
          /\ kResult' = Returned(parse_priority_json_array(ReplyText(content),
                                                           Len(kDrafts)))
    /\ kPc' = "done"
    /\ UNCHANGED <<kVariant, kDrafts, kToday, kNow>>
    /\ UNCHANGED <<schedVars, pureVars, botVars>>

\* the await raises: prioritize has no handler, the exception reaches the
\* caller
OpenAIRaise ==
    /\ kPc = "awaiting"
    /\ kReply' = ServiceError
    /\ kResult' = Raised
    /\ kPc' = "done"
    /\ UNCHANGED <<kVariant, kDrafts, kToday, kNow>>
    /\ UNCHANGED <<schedVars, pureVars, botVars>>

ClassNext ==
    \/ CallHeuristicPrioritize
    \/ OpenAIRequest
    \/ OpenAIReply
    \/ OpenAIRaise

SpecClassify == ClassInit /\ [][ClassNext]_vars

\* ------------------------------------------------------------------------
\* storage.Storage
\*
\* Every user whose zone resolves lives in the zone of the clock.  The column created_at of table
\* tasks is written by add_task and read by no decision of the program; it is
\* left out of the rows.
\* ------------------------------------------------------------------------

NoRow == [none |-> TRUE]

\* list_tasks(..., status=None)
AnyStatus == "any"

User(id, timezone, morning, evening) ==
    [telegram_user_id |-> id, timezone |-> timezone,
     morning_prompt_time |-> morning, evening_check_time |-> evening]

Task(id, user_id, title, day, est, due, prio, status) ==
    [id |-> id, telegram_user_id |-> user_id, title |-> title, day |-> day,
     estimated_minutes |-> est, due_local_time |-> due, priority |-> prio,
     status |-> status]

\* _from_iso_time(_to_iso_time(t)): isoformat(timespec="minutes") and back
IsoMinutesRoundTrip(t) ==
    IF t = NoTime THEN NoTime
    ELSE [hour |-> t.hour, minute |-> t.minute, second |-> 0]

\* SELECT telegram_user_id FROM users: the primary keys, ascending
RECURSIVE IdsAsc(_)
IdsAsc(ids) ==
    IF ids = {} THEN <<>>
    ELSE LET first == CHOOSE i \in ids : \A o \in ids : i <= o
         IN  <<first>> \o IdsAsc(ids \ {first})

list_user_ids(ur) == IdsAsc({ur[i].telegram_user_id : i \in DOMAIN ur})

get_last_sent_days(st, user_id) ==
    IF st[user_id] = NoRow THEN <<NoDay, NoDay>>
    ELSE <<st[user_id].last_morning_sent_day, st[user_id].last_evening_sent_day>>

set_last_morning_sent_day(st, user_id, day) ==
    [st EXCEPT ![user_id] =
        IF @ = NoRow
        THEN [last_morning_sent_day |-> day, last_evening_sent_day |-> NoDay]
        ELSE [@ EXCEPT !.last_morning_sent_day = day]]

set_last_evening_sent_day(st, user_id, day) ==
    [st EXCEPT ![user_id] =
        IF @ = NoRow
        THEN [last_morning_sent_day |-> NoDay, last_evening_sent_day |-> day]
        ELSE [@ EXCEPT !.last_evening_sent_day = day]]

\* INSERT INTO tasks ...: a new row with the next id, status pending
add_task(db, user_id, title, day, est, due, prio) ==
    [rows |-> db.rows \cup
                 {Task(db.next_id, user_id, title, day, est,
                       IsoMinutesRoundTrip(due), prio, PENDING)},
     next_id |-> db.next_id + 1]

\* ORDER BY id ASC
RECURSIVE RowsByIdAsc(_)
RowsByIdAsc(rows) ==
    IF rows = {} THEN <<>>
    ELSE LET first == CHOOSE t \in rows : \A o \in rows : t.id <= o.id
         IN  <<first>> \o RowsByIdAsc(rows \ {first})

list_tasks(rows, user_id, day, status) ==
    RowsByIdAsc({t \in rows : /\ t.telegram_user_id = user_id
                              /\ t.day = day
                              /\ (status = AnyStatus \/ t.status = status)})

update_task_status(rows, user_id, task_id, status) ==
    {IF t.telegram_user_id = user_id /\ t.id = task_id
     THEN [t EXCEPT !.status = status] ELSE t : t \in rows}

delete_tasks_for_day(rows, user_id, day) ==
    {t \in rows : ~(t.telegram_user_id = user_id /\ t.day = day)}

\* ------------------------------------------------------------------------
\* bot.BotApp: the daily cycle coordinator
\* ------------------------------------------------------------------------

\* user_or_default: "UTC", time(8, 0) and time(20, 0)
DefaultTimezone == "UTC"

DefaultMorningTime == Time(8, 0)

DefaultEveningTime == Time(20, 0)

\* CronTrigger(minute="*/5")
TickIntervalMinutes == 5

MsgMorning == "morning_prompt"

MsgAllDone == "all_done"

MsgCarried == "summary_carried"

MsgPlanExists == "summary_plan_exists"

SlotMorning == "morning"

SlotEvening == "evening"

IdleFrame == [pc |-> "idle"]

\* the zone names the tz database of the host knows
TzDatabase == {"UTC", "Europe/Moscow"}

\* ZoneInfo(key): the zone, or ZoneInfoNotFoundError
ZoneInfo(key) == IF key \in TzDatabase THEN Returned(key) ELSE Raised

\* a _daily_tick coroutine suspended in await send_message: the user ids it
\* iterates over, its position, and the locals of the iteration
Frame(pc, ids, i, now, today, last_evening, msg) ==
    [pc |-> pc, ids |-> ids, i |-> i, user_id |-> ids[i], now |-> now,
     today |-> today, last_evening |-> last_evening, msg |-> msg]

\* mutant: the carried task keeps the priority it had
CarryTask_SamePriority(db, user_id, t, tomorrow) ==
    add_task(db, user_id, t.title, tomorrow, t.estimated_minutes,
             t.due_local_time, t.priority)

\* the body of "for t in pending": one add_task call
CarryTask(db, user_id, t, tomorrow) ==
    add_task(db, user_id, t.title, tomorrow, t.estimated_minutes,
             t.due_local_time, carryover_priority(t.priority))

\* for t in pending: self.storage.add_task(...)
RECURSIVE CarryAll(_, _, _, _, _)
CarryAll(db, user_id, pending, i, tomorrow) ==
    IF i > Len(pending) THEN db
    ELSE CarryAll(CarryTask(db, user_id, pending[i], tomorrow), user_id,
                  pending, i + 1, tomorrow)

\* mutant: carryover does not look at tomorrow's tasks
evening_check_AlwaysCarry(db, user_id) ==
    LET today == DateOf(clock)
        pending == list_tasks(db.rows, user_id, today, PENDING)
    IN  IF pending = <<>> THEN [db |-> db, msg |-> MsgAllDone]
        ELSE [db |-> CarryAll(db, user_id, pending, 1, today + 1),
              msg |-> MsgCarried]

\* mutant: carryover runs before the test for pending tasks, over all of
\* today's tasks
evening_check_CarryFirst(db, user_id) ==
    LET today == DateOf(clock)
        pending == list_tasks(db.rows, user_id, today, PENDING)
        all == list_tasks(db.rows, user_id, today, AnyStatus)
        already == list_tasks(db.rows, user_id, today + 1, AnyStatus)
        carried == IF already = <<>>
                   THEN CarryAll(db, user_id, all, 1, today + 1) ELSE db
    IN  IF pending = <<>> THEN [db |-> carried, msg |-> MsgAllDone]
        ELSE [db |-> carried,
              msg |-> IF already = <<>> THEN MsgCarried ELSE MsgPlanExists]

\* mutant: the pending tasks are moved to tomorrow, not copied
evening_check_MovesTasks(db, user_id) ==
    LET today == DateOf(clock)
        pending == list_tasks(db.rows, user_id, today, PENDING)
    IN  IF pending = <<>> THEN [db |-> db, msg |-> MsgAllDone]
        ELSE LET tomorrow == today + 1
                 already == list_tasks(db.rows, user_id, tomorrow, AnyStatus)
                 carried == CarryAll(db, user_id, pending, 1, tomorrow)
             IN  IF already = <<>>
                 THEN [db |-> [carried EXCEPT !.rows =
                                  @ \ {pending[k] : k \in 1..Len(pending)}],
                       msg |-> MsgCarried]
                 ELSE [db |-> db, msg |-> MsgPlanExists]

\* _evening_check up to its await: the tables afterwards, the message to send
evening_check(db, user_id) ==
    LET today == DateOf(clock)
        pending == list_tasks(db.rows, user_id, today, PENDING)
    IN  IF pending = <<>> THEN [db |-> db, msg |-> MsgAllDone]
        ELSE LET tomorrow == today + 1
                 already == list_tasks(db.rows, user_id, tomorrow, AnyStatus)
             IN  IF already = <<>>
                 THEN [db |-> CarryAll(db, user_id, pending, 1, tomorrow),
                       msg |-> MsgCarried]
                 ELSE [db |-> db, msg |-> MsgPlanExists]

\* _daily_tick runs without suspending until its next await or its end; an
\* exception (here of ZoneInfo) leaves the coroutine and ends the task.
\* TickLoop: the for loop from the i-th user id on; TickEvening: the evening
\* slot of one user, evaluated with the now, today and last_evening read at
\* the top of that user's iteration.  Result: the coroutine's frame at the
\* await (IdleFrame at the end) and the tables.
RECURSIVE TickLoop(_, _, _, _)
RECURSIVE TickEvening(_, _, _, _, _, _, _)
TickEvening(ids, i, st, db, now, today, last_evening) ==
    LET u == user_rows[ids[i]]
        e == due_for_daily_send(now, today, u.evening_check_time,
                                last_evening, DefaultWindowMinutes)
    IN  IF e.due_now
        THEN LET r == evening_check(db, ids[i])
             IN  [frame |-> Frame("evening_send", ids, i, now, today,
                                  last_evening, r.msg),
                  db |-> r.db]
        ELSE TickLoop(ids, i + 1, st, db)

TickLoop(ids, i, st, db) ==
    IF i > Len(ids) THEN [frame |-> IdleFrame, db |-> db]
    ELSE IF ZoneInfo(user_rows[ids[i]].timezone).raised
    THEN [frame |-> IdleFrame, db |-> db]
    ELSE LET u == user_rows[ids[i]]
             now == clock
             today == DateOf(now)
             last == get_last_sent_days(st, ids[i])
             m == due_for_daily_send(now, today, u.morning_prompt_time,
                                     last[1], DefaultWindowMinutes)
         IN  IF m.due_now
             THEN [frame |-> Frame("morning_send", ids, i, now, today,
                                   last[2], MsgMorning),
                   db |-> db]
             ELSE TickEvening(ids, i, st, db, now, today, last[2])

\* ---- bounds and inputs of the coordinator specification

MaxTicks == 2

MaxTaskId == 4

\* the users of the bot
UserIds == {1, 2}

\* the users who have sent /start in Spec and SpecOverlap
Registered == {1}

Slots == 1..MaxTicks

\* the instants of a day at which the model looks at the program
DayTimes == {Time(8, 0), Time(8, 10), Time(20, 0), Time(20, 10)}

Instants == {Combine(day, t) : day \in Days, t \in DayTimes}

\* the users who enter tasks; the others are registered and never plan
Planners == {1}

\* the messages with task lines a user writes, parsed by parse_task_line
Messages ==
    { << TaskDraft(<<"pochta">>, 20, NoTime) >>,
      << TaskDraft(<<"proekt">>, 30, NoTime),
         TaskDraft(<<"sdat", "otchet", "srochno">>, 60, Time(17, 0)) >> }

Db == [rows |-> task_rows, next_id |-> next_id]

SentKey(user_id, slot, day) == <<user_id, slot, day>>

Deliver(log, user_id, slot, day) ==
    [log EXCEPT ![SentKey(user_id, slot, day)] = @ + 1]

\* the bot has been started and the users have sent /start: their rows
\* hold the defaults of user_or_default, nothing has been sent yet
BotInit ==
    /\ SchedIdle
    /\ PureIdle
    /\ ClassIdle
    /\ clock = Combine(0, Time(8, 0))
    /\ cronFired = FALSE
    /\ user_rows = [id \in Registered |->
                       User(id, DefaultTimezone, DefaultMorningTime,
                            DefaultEveningTime)]
    /\ user_state = [id \in UserIds |-> NoRow]
    /\ task_rows = {}
    /\ next_id = 1
    /\ awaiting = {}
    /\ ticks = [s \in Slots |-> IdleFrame]
    /\ sent = [k \in UserIds \X {SlotMorning, SlotEvening} \X Days |-> 0]

\* time passes: the clock reaches the next instant
Advance ==
    /\ \E next \in Instants :
          /\ next > clock
          /\ \A other \in Instants : other > clock => next <= other
          /\ clock' = next
    /\ cronFired' = FALSE
    /\ UNCHANGED <<user_rows, user_state, task_rows, next_id, awaiting, ticks,
                   sent>>
    /\ UNCHANGED <<schedVars, pureVars, classVars>>

\* the cron job "daily-tick" fires and starts _daily_tick as a task of its
\* own; the coroutine runs to its first await
TickStart(s) ==
    /\ clock % Minutes(TickIntervalMinutes) = 0
    /\ ~cronFired
    /\ ticks[s] = IdleFrame
    /\ \A other \in Slots : other < s => ticks[other] # IdleFrame
    /\ LET r == TickLoop(list_user_ids(user_rows), 1, user_state, Db)
       IN  /\ r.db.next_id <= MaxTaskId + 1
           /\ ticks' = [ticks EXCEPT ![s] = r.frame]
           /\ task_rows' = r.db.rows
           /\ next_id' = r.db.next_id
    /\ cronFired' = TRUE
    /\ UNCHANGED <<clock, user_rows, user_state, awaiting, sent>>
    /\ UNCHANGED <<schedVars, pureVars, classVars>>

\* mutant: after the morning send the tick goes on with the next user
MorningSendOk_SkipsEvening(s) ==
    /\ ticks[s].pc = "morning_send"
    /\ LET f == ticks[s]
           st == set_last_morning_sent_day(user_state, f.user_id, f.today)
           r == TickLoop(f.ids, f.i + 1, st, Db)
       IN  /\ r.db.next_id <= MaxTaskId + 1
           /\ sent' = Deliver(sent, f.user_id, SlotMorning, f.today)
           /\ user_state' = st
           /\ ticks' = [ticks EXCEPT ![s] = r.frame]
           /\ task_rows' = r.db.rows
           /\ next_id' = r.db.next_id
    /\ UNCHANGED <<clock, cronFired, user_rows, awaiting>>
    /\ UNCHANGED <<schedVars, pureVars, classVars>>

\* await app.bot.send_message (morning prompt) returns: record the day, go on
\* with the evening slot of the same user
MorningSendOk(s) ==
    /\ ticks[s].pc = "morning_send"
    /\ LET f == ticks[s]
           st == set_last_morning_sent_day(user_state, f.user_id, f.today)
           r == TickEvening(f.ids, f.i, st, Db, f.now, f.today, f.last_evening)
       IN  /\ r.db.next_id <= MaxTaskId + 1
           /\ sent' = Deliver(sent, f.user_id, SlotMorning, f.today)
           /\ user_state' = st
           /\ ticks' = [ticks EXCEPT ![s] = r.frame]
           /\ task_rows' = r.db.rows
           /\ next_id' = r.db.next_id
    /\ UNCHANGED <<clock, cronFired, user_rows, awaiting>>
    /\ UNCHANGED <<schedVars, pureVars, classVars>>

\* await _evening_check returns: record the day, go on with the next user
EveningSendOk(s) ==
    /\ ticks[s].pc = "evening_send"
    /\ LET f == ticks[s]
           st == set_last_evening_sent_day(user_state, f.user_id, f.today)
           r == TickLoop(f.ids, f.i + 1, st, Db)
       IN  /\ r.db.next_id <= MaxTaskId + 1
           /\ sent' = Deliver(sent, f.user_id, SlotEvening, f.today)
           /\ user_state' = st
           /\ ticks' = [ticks EXCEPT ![s] = r.frame]
           /\ task_rows' = r.db.rows
           /\ next_id' = r.db.next_id
    /\ UNCHANGED <<clock, cronFired, user_rows, awaiting>>
    /\ UNCHANGED <<schedVars, pureVars, classVars>>

\* mutant: the day is recorded although the send raised
SendFail_RecordsDay(s) ==
    /\ ticks[s].pc \in {"morning_send", "evening_send"}
    /\ ticks' = [ticks EXCEPT ![s] = IdleFrame]
    /\ user_state' =
          IF ticks[s].pc = "morning_send"
          THEN set_last_morning_sent_day(user_state, ticks[s].user_id,
                                         ticks[s].today)
          ELSE set_last_evening_sent_day(user_state, ticks[s].user_id,
                                         ticks[s].today)
    /\ UNCHANGED <<clock, cronFired, user_rows, task_rows, next_id, awaiting,
                   sent>>
    /\ UNCHANGED <<schedVars, pureVars, classVars>>

\* await send_message raises: the exception leaves _daily_tick, the task ends
SendFail(s) ==
    /\ ticks[s].pc \in {"morning_send", "evening_send"}
    /\ ticks' = [ticks EXCEPT ![s] = IdleFrame]
    /\ UNCHANGED <<clock, cronFired, user_rows, user_state, task_rows, next_id,
                   awaiting, sent>>
    /\ UNCHANGED <<schedVars, pureVars, classVars>>

\* /plan
cmd_plan(user_id) ==
    /\ awaiting' = awaiting \cup {user_id}
    /\ UNCHANGED <<clock, cronFired, user_rows, user_state, task_rows, next_id,
                   ticks, sent>>
    /\ UNCHANGED <<schedVars, pureVars, classVars>>

\* for p, pr in zip(parsed, priorities): self.storage.add_task(...)
RECURSIVE AddDrafts(_, _, _, _, _, _)
AddDrafts(db, user_id, drafts, priorities, i, today) ==
    IF i > Len(drafts) THEN db
    ELSE AddDrafts(add_task(db, user_id, drafts[i].title, today,
                            drafts[i].estimated_minutes,
                            drafts[i].due_local_time, priorities[i]),
                   user_id, drafts, priorities, i + 1, today)

\* a text message with task lines while the user is entering tasks: today's
\* tasks are replaced by the parsed ones, with the prioritizer's priorities.
\* The handler then awaits its reply and only afterwards discards the user
\* from _awaiting_tasks: when the reply raises, the user stays in the set.
\* The reminder jobs it registers are not part of this state.
on_text(user_id) ==
    /\ user_id \in awaiting
    /\ \E drafts \in Messages :
          LET now_local == clock
              today == DateOf(now_local)
              priorities == HeuristicPrioritize(drafts, today, clock)
              cleared == [rows |-> delete_tasks_for_day(task_rows, user_id,
                                                        today),
                          next_id |-> next_id]
              db == AddDrafts(cleared, user_id, drafts, priorities, 1, today)
          IN  /\ db.next_id <= MaxTaskId + 1
              /\ task_rows' = db.rows
              /\ next_id' = db.next_id
    /\ \E replied \in BOOLEAN :
          awaiting' = IF replied THEN awaiting \ {user_id} ELSE awaiting
    /\ UNCHANGED <<clock, cronFired, user_rows, user_state, ticks, sent>>
    /\ UNCHANGED <<schedVars, pureVars, classVars>>

\* the ids the user passes to /done and /skip: those of today's plan, as
\* /today lists them
TodaysTaskIds(user_id) ==
    {t.id : t \in {r \in task_rows : /\ r.telegram_user_id = user_id
                                     /\ r.day = DateOf(clock)}}

\* /done <id>
cmd_done(user_id, task_id) ==
    /\ task_rows' = update_task_status(task_rows, user_id, task_id, DONE)
    /\ UNCHANGED <<clock, cronFired, user_rows, user_state, next_id, awaiting,
                   ticks, sent>>
    /\ UNCHANGED <<schedVars, pureVars, classVars>>

\* /skip <id>
cmd_skip(user_id, task_id) ==
    /\ task_rows' = update_task_status(task_rows, user_id, task_id, SKIPPED)
    /\ UNCHANGED <<clock, cronFired, user_rows, user_state, next_id, awaiting,
                   ticks, sent>>
    /\ UNCHANGED <<schedVars, pureVars, classVars>>

\* Spec explores the runs in which a tick has ended before the next one is
\* started (the scheduler itself starts a tick on every firing)
NoTickRunning == \A s \in Slots : ticks[s] = IdleFrame

Next ==
    \/ Advance
    \/ \E s \in Slots : NoTickRunning /\ TickStart(s)
    \/ \E s \in Slots : MorningSendOk(s)
    \/ \E s \in Slots : EveningSendOk(s)
    \/ \E s \in Slots : SendFail(s)
    \/ \E user_id \in Planners : cmd_plan(user_id)
    \/ \E user_id \in Planners : on_text(user_id)
    \/ \E user_id \in Planners : \E task_id \in TodaysTaskIds(user_id) :
          cmd_done(user_id, task_id)
    \/ \E user_id \in Planners : \E task_id \in TodaysTaskIds(user_id) :
          cmd_skip(user_id, task_id)

Spec == BotInit /\ [][Next]_vars

\* the tables after the user has entered one message of task lines on day 0
PlannedDb(user_id, drafts) ==
    AddDrafts([rows |-> {}, next_id |-> 1], user_id, drafts,
              HeuristicPrioritize(drafts, 0, Combine(0, Time(8, 0))), 1, 0)

\* /done for each of the ids
MarkDone(rows, user_id, ids) ==
    {IF r.telegram_user_id = user_id /\ r.id \in ids
     THEN [r EXCEPT !.status = DONE] ELSE r : r \in rows}

\* the bot has been started, the users have sent /start, and a user may have
\* entered the plan of day 0 and marked some of its tasks done
OverlapInit ==
    /\ SchedIdle
    /\ PureIdle
    /\ ClassIdle
    /\ clock = Combine(0, Time(8, 0))
    /\ cronFired = FALSE
    /\ user_rows = [id \in Registered |->
                       User(id, DefaultTimezone, DefaultMorningTime,
                            DefaultEveningTime)]
    /\ user_state = [id \in UserIds |-> NoRow]
    /\ \E user_id \in Planners : \E drafts \in Messages \cup {<<>>} :
          LET db == PlannedDb(user_id, drafts)
          IN  /\ \E ids \in SUBSET {r.id : r \in db.rows} :
                    task_rows = MarkDone(db.rows, user_id, ids)
              /\ next_id = db.next_id
    /\ awaiting = {}
    /\ ticks = [s \in Slots |-> IdleFrame]
    /\ sent = [k \in UserIds \X {SlotMorning, SlotEvening} \X Days |-> 0]

\* SpecOverlap explores the runs of the coordinator in which the cron job
\* starts a tick at each firing whether or not an earlier tick is still
\* suspended in a send
OverlapNext ==
    \/ Advance
    \/ \E s \in Slots : TickStart(s)
    \/ \E s \in Slots : MorningSendOk(s)
    \/ \E s \in Slots : EveningSendOk(s)
    \/ \E s \in Slots : SendFail(s)

SpecOverlap == OverlapInit /\ [][OverlapNext]_vars

\* ---- SpecConfig: two users whose rows differ from the defaults

\* the zone names stored in the rows: "Europe/Kyiv" was known to the tz
\* database of the host on which /timezone stored it
ConfigZones == {DefaultTimezone, "Europe/Kyiv"}

ConfigEveningTimes == {DefaultEveningTime, Time(8, 0)}

ConfigInit ==
    /\ SchedIdle
    /\ PureIdle
    /\ ClassIdle
    /\ clock = Combine(0, Time(8, 0))
    /\ cronFired = FALSE
    /\ \E zone \in [UserIds -> ConfigZones] :
       \E evening \in [UserIds -> ConfigEveningTimes] :
          user_rows = [id \in UserIds |->
                          User(id, zone[id], DefaultMorningTime, evening[id])]
    /\ user_state = [id \in UserIds |-> NoRow]
    /\ task_rows = {}
    /\ next_id = 1
    /\ awaiting = {}
    /\ ticks = [s \in Slots |-> IdleFrame]
    /\ sent = [k \in UserIds \X {SlotMorning, SlotEvening} \X Days |-> 0]

ConfigNext ==
    \/ Advance
    \/ \E s \in Slots : NoTickRunning /\ TickStart(s)
    \/ \E s \in Slots : MorningSendOk(s)
    \/ \E s \in Slots : EveningSendOk(s)
    \/ \E s \in Slots : SendFail(s)

SpecConfig == ConfigInit /\ [][ConfigNext]_vars

\* ---- SpecLive: the cron job fires at every instant, every send returns
\* before the next instant, and the clock goes on

\* both users have sent /start; user 1 may have entered the plan of day 0, of
\* a size the ids up to MaxTaskId can carry over on every day
LiveInit ==
    /\ SchedIdle
    /\ PureIdle
    /\ ClassIdle
    /\ clock = Combine(0, Time(8, 0))
    /\ cronFired = FALSE
    /\ user_rows = [id \in UserIds |->
                       User(id, DefaultTimezone, DefaultMorningTime,
                            DefaultEveningTime)]
    /\ user_state = [id \in UserIds |-> NoRow]
    /\ \E user_id \in Planners : \E drafts \in Messages \cup {<<>>} :
          /\ Len(drafts) * (MaxDay + 2) <= MaxTaskId
          /\ task_rows = PlannedDb(user_id, drafts).rows
          /\ next_id = PlannedDb(user_id, drafts).next_id
    /\ awaiting = {}
    /\ ticks = [s \in Slots |-> IdleFrame]
    /\ sent = [k \in UserIds \X {SlotMorning, SlotEvening} \X Days |-> 0]

\* the clock reaches the next instant after the tick of this one has ended
AdvanceOnTime == cronFired /\ NoTickRunning /\ Advance

LiveTick == \E s \in Slots : NoTickRunning /\ TickStart(s)

LiveMorningSend == \E s \in Slots : MorningSendOk(s)

LiveEveningSend == \E s \in Slots : EveningSendOk(s)

LiveNext ==
    \/ AdvanceOnTime
    \/ LiveTick
    \/ LiveMorningSend
    \/ LiveEveningSend
    \/ \E user_id \in Planners : \E task_id \in TodaysTaskIds(user_id) :
          cmd_done(user_id, task_id)
    \/ \E user_id \in Planners : \E task_id \in TodaysTaskIds(user_id) :
          cmd_skip(user_id, task_id)

\* CronTrigger(minute="*/5") fires at every instant, an awaited send that
\* does not raise returns, time passes
SpecLive ==
    /\ LiveInit
    /\ [][LiveNext]_vars
    /\ WF_vars(AdvanceOnTime)
    /\ WF_vars(LiveTick)
    /\ WF_vars(LiveMorningSend)
    /\ WF_vars(LiveEveningSend)

\* ------------------------------------------------------------------------
\* Scheduler claims (SpecSched)
\* ------------------------------------------------------------------------

SchedDone == sPc = "done"

WindowStart == Combine(sDay, sWindow.start_local)

WindowEnd == Combine(sDay, sWindow.end_local)

\* C1: the blocks returned by build_schedule are strictly increasing in start
\* time and pairwise non-overlapping: for consecutive blocks b[i], b[i+1],
\* b[i].end_local <= b[i+1].start_local and b[i].start_local < b[i+1].start_local.
C1_BlocksOrderedDisjoint ==
    SchedDone =>
        \A i \in 1..(Len(sBlocks) - 1) :
            /\ sBlocks[i].end_local <= sBlocks[i + 1].start_local
            /\ sBlocks[i].start_local < sBlocks[i + 1].start_local

\* two blocks placed with a negative break and a zero-minute estimate
C1_Witness ==
    /\ SchedDone
    /\ Len(sBlocks) >= 2
    /\ sWindow.break_minutes < 0
    /\ \E i \in 1..Len(sTasks) : sTasks[i].estimated_minutes = 0

ClaimRank(p) == IF p = URGENT THEN 0 ELSE IF p = IMPORTANT THEN 1 ELSE 2

\* C2: for every pair of placed tasks A, B where A has strictly higher
\* priority (lower rank) than B, A's block starts at or before B's block; the
\* test's input order Optional(1), Urgent(2), Important(3) is returned as
\* Urgent, Important, Optional.
C2_PriorityOrder ==
    SchedDone =>
        /\ \A i, j \in 1..Len(sBlocks) :
               ClaimRank(sBlocks[i].priority) < ClaimRank(sBlocks[j].priority)
                   => sBlocks[i].start_local <= sBlocks[j].start_local
        /\ (sTasks = TestTasks /\ sWindow = DefaultPlanWindow)
               => [i \in 1..Len(sBlocks) |-> sBlocks[i].task_id] = <<2, 3, 1>>

\* a lower-priority task given first in the input is placed second
C2_Witness ==
    /\ SchedDone
    /\ Len(sBlocks) >= 2
    /\ Len(sTasks) >= 2
    /\ ClaimRank(sTasks[1].priority) > ClaimRank(sTasks[2].priority)
    /\ sBlocks[1].task_id = sTasks[2].task_id
    /\ sBlocks[2].task_id = sTasks[1].task_id

\* C3: every block returned by build_schedule lies inside the plan window:
\* windowStart <= start_local and end_local <= windowEnd, for any tasks, any
\* break duration (including negative) and any window.
C3_BlocksInsideWindow ==
    SchedDone =>
        \A i \in 1..Len(sBlocks) :
            /\ WindowStart <= sBlocks[i].start_local
            /\ sBlocks[i].end_local <= WindowEnd

\* a last block that ends exactly at the window end, a task left unplaced
C3_Witness ==
    /\ SchedDone
    /\ Len(sBlocks) >= 1
    /\ Len(sBlocks) < Len(sTasks)
    /\ sBlocks[Len(sBlocks)].end_local = WindowEnd

\* C15: build_schedule returns the empty list, for any task list, when the
\* plan window has non-positive span (its end at or before its start).
C15_EmptyWindowNoBlocks ==
    (SchedDone /\ WindowEnd <= WindowStart) => sBlocks = <<>>

\* an inverted window and a task list that is not empty
C15_Witness ==
    /\ SchedDone
    /\ WindowEnd < WindowStart
    /\ Len(sTasks) = MaxTasks
    /\ sBlocks = <<>>

\* duration = max(1 minute, estimated minutes), in seconds
ClaimDuration(t) == 60 * (IF t.estimated_minutes >= 1
                          THEN t.estimated_minutes ELSE 1)

\* C16: a single task whose duration exceeds the full window (600 minutes in
\* the 540-minute window) gives the empty block list, never a cut-off block;
\* a single task whose duration equals the window span is placed as one
\* block covering the whole window.
C16_SingleTaskAndWindow ==
    (SchedDone /\ Len(sTasks) = 1) =>
        /\ ClaimDuration(sTasks[1]) > WindowEnd - WindowStart
               => sBlocks = <<>>
        /\ ClaimDuration(sTasks[1]) = WindowEnd - WindowStart
               => /\ Len(sBlocks) = 1
                  /\ sBlocks[1].task_id = sTasks[1].task_id
                  /\ sBlocks[1].start_local = WindowStart
                  /\ sBlocks[1].end_local = WindowEnd

\* 600 minutes in the window 09:00-18:00: nothing placed
C16_Witness ==
    /\ SchedDone
    /\ Len(sTasks) = 1
    /\ sTasks[1].estimated_minutes = 600
    /\ WindowEnd - WindowStart = 540 * 60
    /\ sBlocks = <<>>

\* the task a block was made from
TaskOfBlock(b) == CHOOSE t \in {sTasks[i] : i \in 1..Len(sTasks)} :
                      t.task_id = b.task_id

\* C17: every block returned by build_schedule ends after it starts and is
\* exactly max(1, estimated_minutes) minutes of its task long: a task with
\* zero or negative estimated minutes gets a one-minute block.
C17_BlockLength ==
    SchedDone =>
        \A i \in 1..Len(sBlocks) :
            /\ sBlocks[i].end_local > sBlocks[i].start_local
            /\ sBlocks[i].end_local - sBlocks[i].start_local =
                  ClaimDuration(TaskOfBlock(sBlocks[i]))

\* a task of zero minutes and a task of minus one minute, both placed
C17_Witness ==
    /\ SchedDone
    /\ Len(sBlocks) = 2
    /\ \E i, j \in 1..2 :
          /\ TaskOfBlock(sBlocks[i]).estimated_minutes = 0
          /\ TaskOfBlock(sBlocks[j]).estimated_minutes < 0
          /\ sBlocks[i].end_local - sBlocks[i].start_local = 60
          /\ sBlocks[j].end_local - sBlocks[j].start_local = 60

\* C20: the first block starts at the window start and every following block
\* starts exactly at the end of the block before it plus max(0,
\* break_minutes); window 09:00-18:00, break 5 and three 30-minute tasks
\* without due time: the starts are 09:00, 09:35 and 10:10.
C20_BlockStarts ==
    SchedDone =>
        /\ Len(sBlocks) >= 1 => sBlocks[1].start_local = WindowStart
        /\ \A i \in 1..(Len(sBlocks) - 1) :
               sBlocks[i + 1].start_local =
                   sBlocks[i].end_local
                     + 60 * (IF sWindow.break_minutes >= 0
                             THEN sWindow.break_minutes ELSE 0)
        /\ (sTasks = TestTasks /\ sWindow = DefaultPlanWindow) =>
               [i \in 1..Len(sBlocks) |-> sBlocks[i].start_local] =
                   << Combine(sDay, Time(9, 0)), Combine(sDay, Time(9, 35)),
                      Combine(sDay, Time(10, 10)) >>

\* the three 30-minute tasks of the test are placed in the default window
C20_Witness ==
    /\ SchedDone
    /\ sTasks = TestTasks
    /\ sWindow = DefaultPlanWindow
    /\ Len(sBlocks) = 3
    /\ sBlocks[3].start_local = Combine(sDay, Time(10, 10))

\* ------------------------------------------------------------------------
\* Sort-order claims (SpecOrder, SpecSched)
\* ------------------------------------------------------------------------

\* the composite key of the claim: priority rank, then tasks with a due time
\* before tasks without, then the earlier due time, then the shorter
\* estimate, then the lower id
HasDue(t) == t.due_local_time # NoTime

DueMinuteOfDay(t) == t.due_local_time.hour * 60 + t.due_local_time.minute

SameDueRank(a, b) ==
    \/ ~HasDue(a) /\ ~HasDue(b)
    \/ HasDue(a) /\ HasDue(b) /\ DueMinuteOfDay(a) = DueMinuteOfDay(b)

EarlierDueRank(a, b) ==
    \/ HasDue(a) /\ ~HasDue(b)
    \/ HasDue(a) /\ HasDue(b) /\ DueMinuteOfDay(a) < DueMinuteOfDay(b)

Precedes(a, b) ==
    \/ ClaimRank(a.priority) < ClaimRank(b.priority)
    \/ /\ a.priority = b.priority
       /\ \/ EarlierDueRank(a, b)
          \/ /\ SameDueRank(a, b)
             /\ \/ a.estimated_minutes < b.estimated_minutes
                \/ /\ a.estimated_minutes = b.estimated_minutes
                   /\ a.task_id < b.task_id

\* C19: build_schedule orders tasks by the composite key (priority rank,
\* due-time rank, estimated minutes, task id) ascending: in one priority tier
\* a task with a due time precedes every task without one, of two due times
\* the earlier comes first, equal due ranks are broken by the shorter
\* estimate and what remains by the lower task id.
C19_CompositeSortKey ==
    SchedDone =>
        /\ Len(sBlocks) = Len(sTasks)
        /\ \A i, j \in 1..Len(sBlocks) :
              i < j => Precedes(TaskOfBlock(sBlocks[i]),
                                TaskOfBlock(sBlocks[j]))

\* two tasks equal in priority, due time and estimate, the higher id given
\* first: the lower id is placed first
C19_Witness ==
    /\ SchedDone
    /\ Len(sTasks) = 2
    /\ Len(sBlocks) = 2
    /\ sTasks[1].priority = sTasks[2].priority
    /\ sTasks[1].due_local_time = sTasks[2].due_local_time
    /\ sTasks[1].estimated_minutes = sTasks[2].estimated_minutes
    /\ sTasks[1].task_id > sTasks[2].task_id
    /\ sBlocks[1].task_id = sTasks[2].task_id

\* the task lists that hold the tasks of ts in another order
Reorderings(ts) ==
    {[i \in 1..Len(ts) |-> ts[p[i]]] : p \in SchedIdOrders(Len(ts))}

\* C29: build_schedule does not depend on the order of its input: for tasks
\* with pairwise distinct ids, every reordering of the task list gives the
\* same list of blocks
C29_InputOrderIrrelevant ==
    SchedDone =>
        \A ts \in Reorderings(sTasks) :
           build_schedule(sDay, ts, sWindow) = sBlocks

\* an Optional task given ahead of an Urgent one with a greater id: the
\* blocks come in the other order
C29_Witness ==
    /\ SchedDone
    /\ Len(sTasks) = 2
    /\ Len(sBlocks) = 2
    /\ sTasks[1].priority = OPTIONAL
    /\ sTasks[2].priority = URGENT
    /\ sTasks[1].task_id < sTasks[2].task_id
    /\ sBlocks[1].task_id = sTasks[2].task_id
    /\ sBlocks[2].task_id = sTasks[1].task_id

\* the tasks that got a block, and those that got none
PlacedTasks == {TaskOfBlock(sBlocks[i]) : i \in 1..Len(sBlocks)}

UnplacedTasks == {sTasks[i] : i \in 1..Len(sTasks)} \ PlacedTasks

\* where the cursor stands after the last block
CursorAtEnd ==
    IF sBlocks = <<>> THEN WindowStart
    ELSE sBlocks[Len(sBlocks)].end_local
           + 60 * (IF sWindow.break_minutes >= 0
                   THEN sWindow.break_minutes ELSE 0)

\* C18: build_schedule stops at the first task in sorted order that does not
\* fit (cursor + duration > window end): the placed tasks are a prefix of the
\* sorted order, the first unplaced task does not fit at the cursor, and no
\* later task is placed even when it is shorter and would fit.
C18_StopsAtFirstMisfit ==
    SchedDone =>
        /\ \A i, j \in 1..Len(sBlocks) :
              i < j => Precedes(TaskOfBlock(sBlocks[i]),
                                TaskOfBlock(sBlocks[j]))
        /\ \A a \in PlacedTasks, b \in UnplacedTasks : Precedes(a, b)
        /\ \A b \in UnplacedTasks :
              (\A o \in UnplacedTasks \ {b} : Precedes(b, o)) =>
                  CursorAtEnd + ClaimDuration(b) > WindowEnd

\* the first task in sorted order does not fit and nothing is placed, though
\* the second one is shorter and would fit into the window
C18_Witness ==
    /\ SchedDone
    /\ Len(sTasks) = 2
    /\ sBlocks = <<>>
    /\ \E a, b \in UnplacedTasks :
          /\ Precedes(a, b)
          /\ WindowStart + ClaimDuration(a) > WindowEnd
          /\ WindowStart + ClaimDuration(b) <= WindowEnd

\* ------------------------------------------------------------------------
\* Dueness and carryover claims (SpecPure)
\* ------------------------------------------------------------------------

DueCalled == dResult # NoResult

DueScheduled == Combine(dArgs.today, dArgs.when_local)

\* scheduled <= now <= scheduled + window_minutes, both bounds inclusive
DueInsideWindow ==
    /\ DueScheduled <= dArgs.now
    /\ dArgs.now <= DueScheduled + dArgs.window_minutes * 60

\* C4: due_for_daily_send returns due_now = False whenever last_sent_day
\* equals today, for every now, scheduled time and window_minutes; with
\* last_sent_day = None and now inside the window the call returns True.
C4_SentTodayNeverDue ==
    DueCalled =>
        /\ dArgs.last_sent_day = dArgs.today => dResult.due_now = FALSE
        /\ (dArgs.last_sent_day = NoDay /\ DueInsideWindow)
               => dResult.due_now = TRUE

\* now is inside the window, and only the last-sent day makes the call not due
C4_Witness ==
    /\ DueCalled
    /\ dArgs.last_sent_day = dArgs.today
    /\ DueInsideWindow
    /\ dResult.due_now = FALSE

\* C5: when last_sent_day # today, due_now is True exactly when
\* scheduled <= now <= scheduled + window_minutes, both bounds inclusive
\* (scheduled 08:00, window 10: 08:00, 08:05, 08:10 due; 07:59, 08:11 not).
C5_DueExactlyInsideWindow ==
    (DueCalled /\ dArgs.last_sent_day # dArgs.today) =>
        (dResult.due_now = TRUE <=> DueInsideWindow)

\* scheduled 08:00, window 10 minutes, now 08:10:00 exactly: due
C5_Witness ==
    /\ DueCalled
    /\ dArgs.last_sent_day # dArgs.today
    /\ dArgs.when_local = Time(8, 0)
    /\ dArgs.window_minutes = 10
    /\ dArgs.now = Combine(dArgs.today, Time(8, 10))
    /\ dResult.due_now = TRUE

\* C10: carryover_priority is the fixed mapping Urgent->Urgent,
\* Important->Urgent, Optional->Important, defined for every Priority value.
C10_CarryoverMapping ==
    cResult # NoPriority =>
        /\ cResult \in Priority
        /\ cArg = URGENT => cResult = URGENT
        /\ cArg = IMPORTANT => cResult = URGENT
        /\ cArg = OPTIONAL => cResult = IMPORTANT

\* an Optional priority has been carried over
C10_Witness ==
    /\ cArg = OPTIONAL
    /\ cResult = IMPORTANT

\* C11: carryover_priority never de-escalates (the rank of its result is at
\* most the rank of its argument, Urgent ranking lowest), Urgent is its only
\* fixed point, and the second and every later application give Urgent
\* (Optional -> Important -> Urgent -> Urgent).
C11_CarryoverEscalates ==
    cResult # NoPriority =>
        /\ ClaimRank(cResult) <= ClaimRank(cArg)
        /\ (cResult = cArg <=> cArg = URGENT)
        /\ carryover_priority(cResult) = URGENT
        /\ carryover_priority(carryover_priority(cResult)) = URGENT

\* the chain from Optional: Important after one application, Urgent after two
C11_Witness ==
    /\ cArg = OPTIONAL
    /\ cResult = IMPORTANT
    /\ carryover_priority(cResult) = URGENT

\* ------------------------------------------------------------------------
\* Classifier claims (SpecClassify)
\* ------------------------------------------------------------------------

HeuristicDone == kPc = "done" /\ kVariant = "heuristic"

\* the seconds from now to the due instant of the k-th draft
SecondsToDue(k) == Combine(kToday, kDrafts[k].due_local_time) - kNow

\* C12: the deterministic classifier gives Urgent to every draft whose due
\* instant (today combined with its due time) is 180 minutes or less after
\* now, already past included, whatever its title: no keyword or only an
\* important keyword in it makes no difference.
C12_DueSoonIsUrgent ==
    HeuristicDone =>
        \A k \in 1..Len(kDrafts) :
           (/\ kDrafts[k].due_local_time # NoTime
            /\ SecondsToDue(k) <= 180 * 60) =>
               kResult.value[k] = URGENT

\* exactly 180 minutes before the due time: a draft with no keyword and one
\* with only an important keyword are both Urgent
C12_Witness ==
    /\ HeuristicDone
    /\ Len(kDrafts) = 2
    /\ kDrafts[1].title = <<"pochta">>
    /\ kDrafts[2].title = <<"otchet">>
    /\ kDrafts[1].due_local_time # NoTime
    /\ kDrafts[2].due_local_time # NoTime
    /\ SecondsToDue(1) = 180 * 60
    /\ SecondsToDue(2) = 180 * 60
    /\ kResult.value = <<URGENT, URGENT>>

\* the three keyword tiers: Urgent for an urgent keyword, else Important for an
\* important keyword, else Optional
KeywordTier(title) ==
    IF \E k \in 1..Len(title) : title[k] \in UrgentKeywords THEN URGENT
    ELSE IF \E k \in 1..Len(title) : title[k] \in ImportantKeywords
    THEN IMPORTANT
    ELSE OPTIONAL

\* C21: the deterministic classifier applies the due-time rule only when the
\* due instant is at most 180 minutes after now: a draft due more than 180
\* minutes after now, by any amount (less than a minute included), is
\* classified by its keywords alone, so without a keyword it is Optional.
C21_DueRuleOnlyWithin180 ==
    HeuristicDone =>
        \A k \in 1..Len(kDrafts) :
           (/\ kDrafts[k].due_local_time # NoTime
            /\ SecondsToDue(k) > 180 * 60) =>
               kResult.value[k] = KeywordTier(kDrafts[k].title)

\* the due-time rule did not fire for the k-th draft: it has no due time, or
\* its due instant is 181 minutes or more after now
NotCaughtByDueRule(k) ==
    \/ kDrafts[k].due_local_time = NoTime
    \/ SecondsToDue(k) >= 181 * 60

\* C22: a draft not caught by the due-time rule is Urgent when its title has
\* an urgent keyword (an important keyword beside it changes nothing),
\* otherwise Important when it has an important keyword, otherwise Optional;
\* the other drafts of the batch play no part.
C22_KeywordTiers ==
    HeuristicDone =>
        \A k \in 1..Len(kDrafts) :
           NotCaughtByDueRule(k) =>
               kResult.value[k] = KeywordTier(kDrafts[k].title)

\* a title with an urgent and an important keyword next to a title with none
C22_Witness ==
    /\ HeuristicDone
    /\ Len(kDrafts) = 2
    /\ kDrafts[1] = TaskDraft(<<"sdat", "otchet">>, 30, NoTime)
    /\ kDrafts[2] = TaskDraft(<<"pochta">>, 30, NoTime)
    /\ kResult.value = <<URGENT, OPTIONAL>>

\* C13: for both classifier variants and every batch of drafts, the empty
\* one included, prioritize returns to its caller a list with exactly one
\* Priority per draft, in input order, and never raises, whatever the
\* service call or its reply does.
C13_ClassifyTotal ==
    kPc = "done" =>
        /\ ~kResult.raised
        /\ Len(kResult.value) = Len(kDrafts)
        /\ \A k \in 1..Len(kDrafts) :
              /\ kResult.value[k] \in Priority
              /\ kVariant = "heuristic" =>
                    kResult.value[k] =
                        HeuristicPriority(kDrafts[k], kToday, kNow)

\* the service replied and its reply was parsed
ReplyParsed == kPc = "done" /\ kVariant = "openai" /\ kReply # ServiceError

\* a JSON string that spells a label, in any letter case, with blanks around
\* it or without
SpellsLabel(x) == x.type = "string" /\ x.word \in Priority

\* the reply is a list of exactly n strings that all spell a label
ReplyIsLabelList(n) ==
    LET text == ReplyText(kReply)
    IN  /\ text.type = "array"
        /\ Len(text.items) = n
        /\ \A k \in 1..n : SpellsLabel(text.items[k])

\* C14: the reply parser is all-or-nothing per batch: for a reply and expected
\* length n the result is the n labels of the reply, one to one and in order,
\* when the reply is a list of exactly n strings that all spell a label, and
\* n copies of Important otherwise (wrong length, no list, a non-string
\* element, one unrecognized label); parsed labels and fallback values are
\* never mixed.
C14_ParserAllOrNothing ==
    ReplyParsed =>
        LET n == Len(kDrafts)
        IN  /\ ~kResult.raised
            /\ kResult.value =
                  IF ReplyIsLabelList(n)
                  THEN [k \in 1..n |-> ReplyText(kReply).items[k].word]
                  ELSE [k \in 1..n |-> IMPORTANT]

\* a reply of two strings, the first a label and the second none: both
\* drafts are Important
C14_Witness ==
    /\ ReplyParsed
    /\ Len(kDrafts) = 2
    /\ kReply = JsonArray(<<JsonString("urgent", FALSE, FALSE),
                            JsonString("high", FALSE, FALSE)>>)
    /\ kResult = Returned(<<IMPORTANT, IMPORTANT>>)

\* ------------------------------------------------------------------------
\* Coordinator claims (Spec)
\* ------------------------------------------------------------------------

LastSent(user_id, slot) ==
    IF slot = SlotMorning THEN get_last_sent_days(user_state, user_id)[1]
    ELSE get_last_sent_days(user_state, user_id)[2]

SendPc(slot) == IF slot = SlotMorning THEN "morning_send" ELSE "evening_send"

\* C6: over ticks that do not overlap, each kind of notification is sent at
\* most once per user and calendar day; a recorded day D means exactly one
\* send of that kind for D has happened, and no tick is then about to send or
\* record that kind for D again
C6_AtMostOncePerDay ==
    \A user_id \in UserIds, slot \in {SlotMorning, SlotEvening} :
       /\ \A day \in Days : sent[SentKey(user_id, slot, day)] <= 1
       /\ LastSent(user_id, slot) # NoDay =>
             /\ sent[SentKey(user_id, slot, LastSent(user_id, slot))] = 1
             /\ \A s \in Slots :
                   ~(/\ ticks[s].pc = SendPc(slot)
                     /\ ticks[s].user_id = user_id
                     /\ ticks[s].today = LastSent(user_id, slot))

\* the morning of day 0 is recorded and sent once, and the tick of 08:10, still
\* inside the morning window, has run to its end
C6_Witness ==
    /\ clock = Combine(0, Time(8, 10))
    /\ cronFired
    /\ NoTickRunning
    /\ LastSent(1, SlotMorning) = 0
    /\ sent[SentKey(1, SlotMorning, 0)] = 1

\* a step in which the tick in slot s runs _evening_check up to its await
EveningCheckStep(s) ==
    /\ ticks'[s] # ticks[s]
    /\ ticks'[s].pc = "evening_send"

\* a step in which the send awaited by the tick in slot s returns
EveningSendReturns(s) ==
    /\ ticks[s].pc = "evening_send"
    /\ ticks'[s] # ticks[s]
    /\ sent' # sent

\* the evening day of the frame's user is recorded and one send is counted
EveningRecorded(f) ==
    /\ get_last_sent_days(user_state', f.user_id)[2] = f.today
    /\ sent'[SentKey(f.user_id, SlotEvening, f.today)] =
          sent[SentKey(f.user_id, SlotEvening, f.today)] + 1

PendingToday(user_id) ==
    list_tasks(task_rows, user_id, DateOf(clock), PENDING)

AlreadyTomorrow(user_id) ==
    list_tasks(task_rows, user_id, DateOf(clock) + 1, AnyStatus)

\* C7: an evening check that finds pending tasks today and at least one task
\* (of any status) tomorrow creates no task and changes none, and goes on to
\* send the summary; when that send returns the evening day is recorded
C7_NonClobber ==
    [][\A s \in Slots :
          /\ EveningCheckStep(s) =>
                LET user_id == ticks'[s].user_id
                IN  (PendingToday(user_id) # <<>> /\
                     AlreadyTomorrow(user_id) # <<>>) =>
                       /\ task_rows' = task_rows
                       /\ next_id' = next_id
                       /\ ticks'[s].msg = MsgPlanExists
          /\ (EveningSendReturns(s) /\ ticks[s].msg = MsgPlanExists) =>
                EveningRecorded(ticks[s])]_vars

\* the summary of the non-clobber branch is about to be sent: today has a
\* pending task and tomorrow has a task
C7_Witness ==
    \E s \in Slots :
       /\ ticks[s].pc = "evening_send"
       /\ ticks[s].msg = MsgPlanExists
       /\ ticks[s].today = DateOf(clock)
       /\ PendingToday(ticks[s].user_id) # <<>>
       /\ AlreadyTomorrow(ticks[s].user_id) # <<>>

\* row n is the carried-over copy of the pending row t
CarriedCopy(n, t, tomorrow) ==
    /\ n.telegram_user_id = t.telegram_user_id
    /\ n.day = tomorrow
    /\ n.title = t.title
    /\ n.estimated_minutes = t.estimated_minutes
    /\ n.due_local_time = t.due_local_time
    /\ n.status = PENDING
    /\ n.priority = carryover_priority(t.priority)

\* C8: an evening check that finds pending tasks today and no task tomorrow
\* creates exactly one task per pending task: dated tomorrow, same title,
\* estimate and due time, status pending, priority carryover_priority of the
\* pending task's priority; it creates nothing else
C8_CarryoverCreatesCopies ==
    [][\A s \in Slots :
          EveningCheckStep(s) =>
             LET user_id == ticks'[s].user_id
                 pending == PendingToday(user_id)
                 created == task_rows' \ task_rows
             IN  (pending # <<>> /\ AlreadyTomorrow(user_id) = <<>>) =>
                    /\ task_rows \subseteq task_rows'
                    /\ Cardinality(created) = Len(pending)
                    /\ \E copy \in [1..Len(pending) -> created] :
                          /\ \A i, j \in 1..Len(pending) :
                                copy[i] = copy[j] => i = j
                          /\ \A i \in 1..Len(pending) :
                                CarriedCopy(copy[i], pending[i],
                                            DateOf(clock) + 1)]_vars

\* two pending tasks of today have just been carried over
C8_Witness ==
    \E s \in Slots :
       /\ ticks[s].pc = "evening_send"
       /\ ticks[s].msg = MsgCarried
       /\ ticks[s].today = DateOf(clock)
       /\ Len(PendingToday(ticks[s].user_id)) = 2
       /\ Len(AlreadyTomorrow(ticks[s].user_id)) = 2

\* C9: an evening check that finds no pending task today (none at all, or all
\* done or skipped) creates and changes no task row of any day and goes on to
\* send the completion acknowledgement; when that send returns the evening
\* day is recorded as today
C9_NoPendingAcknowledged ==
    [][\A s \in Slots :
          /\ EveningCheckStep(s) =>
                (PendingToday(ticks'[s].user_id) = <<>> =>
                    /\ task_rows' = task_rows
                    /\ next_id' = next_id
                    /\ ticks'[s].msg = MsgAllDone)
          /\ (EveningSendReturns(s) /\ ticks[s].msg = MsgAllDone) =>
                EveningRecorded(ticks[s])]_vars

\* the acknowledgement was sent and the day recorded, on a day whose tasks
\* are all done or skipped
C9_Witness ==
    /\ LastSent(1, SlotEvening) = DateOf(clock)
    /\ sent[SentKey(1, SlotEvening, DateOf(clock))] = 1
    /\ PendingToday(1) = <<>>
    /\ list_tasks(task_rows, 1, DateOf(clock), DONE) # <<>>
    /\ list_tasks(task_rows, 1, DateOf(clock), SKIPPED) # <<>>
    /\ AlreadyTomorrow(1) = <<>>

\* the task rows of day
RowsOf(rows, day) == {r \in rows : r.day = day}

\* C30: the evening check changes no task row of today, whichever branch it
\* takes (nothing pending, carryover, tomorrow already planned) and whether
\* its send returns or raises: a step of a tick leaves today's rows as they
\* are, removes no row, and the rows it adds are dated tomorrow, so the
\* carried tasks are copies and the originals stay pending on their day
C30_TodayUntouched ==
    [][(\E s \in Slots : ticks'[s] # ticks[s]) =>
          /\ RowsOf(task_rows', DateOf(clock)) = RowsOf(task_rows, DateOf(clock))
          /\ task_rows \subseteq task_rows'
          /\ \A r \in task_rows' \ task_rows : r.day = DateOf(clock) + 1]_vars

\* the evening check of day 0 has carried two tasks over, its send has
\* returned and the day is recorded; the two originals are still pending
C30_Witness ==
    /\ NoTickRunning
    /\ LastSent(1, SlotEvening) = DateOf(clock)
    /\ sent[SentKey(1, SlotEvening, DateOf(clock))] = 1
    /\ Len(PendingToday(1)) = 2
    /\ \E copy \in [1..2 -> {r \in task_rows : r.day = DateOf(clock) + 1}] :
          /\ copy[1] # copy[2]
          /\ \A k \in 1..2 :
                CarriedCopy(copy[k], PendingToday(1)[k], DateOf(clock) + 1)

\* a step in which the send awaited by the tick in slot s raises
SendRaises(s) ==
    /\ ticks[s].pc \in {"morning_send", "evening_send"}
    /\ ticks'[s] = IdleFrame
    /\ sent' = sent

\* a step in which the cron job starts a tick
TickStartStep == ~cronFired /\ cronFired'

SlotTime(user_id, slot) ==
    IF slot = SlotMorning THEN user_rows[user_id].morning_prompt_time
    ELSE user_rows[user_id].evening_check_time

\* the clock is inside the slot's grace window and the slot's recorded day is
\* not today
SlotOpen(user_id, slot) ==
    LET scheduled == Combine(DateOf(clock), SlotTime(user_id, slot))
    IN  /\ scheduled <= clock
        /\ clock <= scheduled + Minutes(DefaultWindowMinutes)
        /\ LastSent(user_id, slot) # DateOf(clock)

\* the tick in slot s is suspended in the send of the slot for the user, today
SendingNow(s, user_id, slot) ==
    /\ ticks'[s].pc = SendPc(slot)
    /\ ticks'[s].user_id = user_id
    /\ ticks'[s].today = DateOf(clock)

\* C23: the last-sent day of a slot is recorded only on the step on which the
\* send returns; a send that raises leaves the last-sent days as they were,
\* and a tick started while the grace window is still open then finds the
\* slot due again and goes to send it again
C23_RecordAfterSend ==
    [][/\ \A s \in Slots : SendRaises(s) => user_state' = user_state
       /\ \A user_id \in DOMAIN user_rows :
          \A slot \in {SlotMorning, SlotEvening} :
             LET last == LastSent(user_id, slot)'
             IN  last # LastSent(user_id, slot) =>
                    sent'[SentKey(user_id, slot, last)] =
                       sent[SentKey(user_id, slot, last)] + 1
       /\ TickStartStep =>
             LET user_id == list_user_ids(user_rows)[1]
             IN  /\ SlotOpen(user_id, SlotMorning) =>
                       \E s \in Slots : SendingNow(s, user_id, SlotMorning)
                 /\ (~SlotOpen(user_id, SlotMorning) /\
                     SlotOpen(user_id, SlotEvening)) =>
                       \E s \in Slots : SendingNow(s, user_id, SlotEvening)]_vars

\* the tick of 20:10 sends the evening summary again: the tasks were carried
\* over by the tick of 20:00, whose send raised, and no evening day is
\* recorded
C23_Witness ==
    \E s \in Slots :
       /\ clock = Combine(0, Time(20, 10))
       /\ ticks[s].pc = "evening_send"
       /\ ticks[s].now = clock
       /\ ticks[s].msg = MsgPlanExists
       /\ AlreadyTomorrow(1) # <<>>
       /\ LastSent(1, SlotEvening) = NoDay
       /\ sent[SentKey(1, SlotEvening, 0)] = 0

\* ------------------------------------------------------------------------
\* Overlapping ticks (SpecOverlap)
\* ------------------------------------------------------------------------

\* the rows dated tomorrow that the step creates for the user
CarriedNow(user_id) ==
    {r \in task_rows' \ task_rows : /\ r.telegram_user_id = user_id
                                     /\ r.day = DateOf(clock) + 1}

\* C24: each pending task is carried over at most once per day, whatever the
\* ticks of the day do (a tick that runs the evening check again after a
\* summary send that raised, ticks suspended in a send while another runs):
\* a step creates tasks dated tomorrow only when tomorrow has none, it then
\* creates one per pending task of today and no more, and while the day
\* lasts no task dated tomorrow goes away
C24_CarriedAtMostOnce ==
    [][\A user_id \in DOMAIN user_rows :
          /\ CarriedNow(user_id) # {} =>
                /\ AlreadyTomorrow(user_id) = <<>>
                /\ Cardinality(CarriedNow(user_id)) <=
                      Len(PendingToday(user_id))
                /\ \E copy \in [CarriedNow(user_id) ->
                                    1..Len(PendingToday(user_id))] :
                      /\ \A n, m \in CarriedNow(user_id) :
                            copy[n] = copy[m] => n = m
                      /\ \A n \in CarriedNow(user_id) :
                            CarriedCopy(n, PendingToday(user_id)[copy[n]],
                                        DateOf(clock) + 1)
          /\ DateOf(clock') = DateOf(clock) =>
                \A k \in 1..Len(AlreadyTomorrow(user_id)) :
                   \E r \in task_rows' :
                      /\ r.id = AlreadyTomorrow(user_id)[k].id
                      /\ r.day = DateOf(clock) + 1]_vars

\* two ticks are suspended in the evening send of day 0: the tick of 20:00
\* carried the two pending tasks over, the tick of 20:10 found tomorrow
\* planned and carried nothing
C24_Witness ==
    /\ clock = Combine(0, Time(20, 10))
    /\ ticks[1].pc = "evening_send"
    /\ ticks[1].msg = MsgCarried
    /\ ticks[1].now = Combine(0, Time(20, 0))
    /\ ticks[2].pc = "evening_send"
    /\ ticks[2].msg = MsgPlanExists
    /\ ticks[2].now = clock
    /\ Len(PendingToday(1)) = 2
    /\ Len(AlreadyTomorrow(1)) = 2

\* the ticks that are evaluating the user or suspended in one of its sends
TicksOn(user_id) ==
    {s \in Slots : ticks[s] # IdleFrame /\ ticks[s].user_id = user_id}

\* C25: the coordinator's work for one user is serialized although every
\* firing starts a tick of its own: no two ticks are at work on the same user
\* at the same time (so no tick reads a last-sent day that a tick still
\* suspended in its send is going to write), and no kind of notification is
\* sent twice for the same day
C25_PerUserSerialized ==
    \A user_id \in DOMAIN user_rows :
       /\ Cardinality(TicksOn(user_id)) <= 1
       /\ \A slot \in {SlotMorning, SlotEvening}, day \in Days :
             sent[SentKey(user_id, slot, day)] <= 1

\* ------------------------------------------------------------------------
\* Configured users (SpecConfig)
\* ------------------------------------------------------------------------

\* a step in which the morning send awaited by the tick in slot s returns
MorningSendReturns(s) ==
    /\ ticks[s].pc = "morning_send"
    /\ ticks'[s] # ticks[s]
    /\ sent' # sent

\* the evening window of the frame's user is open at the frame's now and the
\* evening day the frame has read is not the frame's today
EveningOpenFor(f) ==
    LET scheduled == Combine(f.today, user_rows[f.user_id].evening_check_time)
    IN  /\ scheduled <= f.now
        /\ f.now <= scheduled + Minutes(DefaultWindowMinutes)
        /\ f.last_evening # f.today

\* C27: within one tick the two slots are evaluated independently: when both
\* windows are open and neither slot is recorded for today, the tick whose
\* morning send has returned records the morning day and goes on to the
\* evening check of the same user with the same now, and when that send
\* returns the evening day is recorded too
C27_BothSlotsInOneTick ==
    [][\A s \in Slots :
          /\ (MorningSendReturns(s) /\ EveningOpenFor(ticks[s])) =>
                /\ LastSent(ticks[s].user_id, SlotMorning)' = ticks[s].today
                /\ ticks'[s].pc = "evening_send"
                /\ ticks'[s].user_id = ticks[s].user_id
                /\ ticks'[s].now = ticks[s].now
          /\ EveningSendReturns(s) => EveningRecorded(ticks[s])]_vars

\* morning and evening are both configured for 08:00; the tick of 08:00 has
\* sent both notifications to user 1 and recorded both days
C27_Witness ==
    /\ clock = Combine(0, Time(8, 0))
    /\ user_rows[1].morning_prompt_time = user_rows[1].evening_check_time
    /\ LastSent(1, SlotMorning) = 0
    /\ LastSent(1, SlotEvening) = 0
    /\ sent[SentKey(1, SlotMorning, 0)] = 1
    /\ sent[SentKey(1, SlotEvening, 0)] = 1

ZoneKnown(user_id) == user_rows[user_id].timezone \in TzDatabase

\* the user's evaluation raises, or finds neither slot due
NothingDue(user_id) ==
    \/ ~ZoneKnown(user_id)
    \/ ~SlotOpen(user_id, SlotMorning) /\ ~SlotOpen(user_id, SlotEvening)

\* C28: an exception raised while a tick evaluates one user counts as "not
\* due" for that user and does not end the tick: the tick goes on to the
\* users after it, so that the first user with an open morning slot is sent
\* the morning prompt
C28_ExceptionSkipsOneUser ==
    [][TickStartStep =>
          LET ids == list_user_ids(user_rows)
          IN  \A k \in 1..Len(ids) :
                 (/\ \A j \in 1..(k - 1) : NothingDue(ids[j])
                  /\ ZoneKnown(ids[k])
                  /\ SlotOpen(ids[k], SlotMorning)) =>
                     \E s \in Slots : SendingNow(s, ids[k], SlotMorning)]_vars

\* ------------------------------------------------------------------------
\* Ticks on time (SpecLive)
\* ------------------------------------------------------------------------

\* the frame's now is inside the grace window of the slot on the frame's day
InsideWindow(f, slot) ==
    LET scheduled == Combine(f.today, SlotTime(f.user_id, slot))
    IN  /\ scheduled <= f.now
        /\ f.now <= scheduled + Minutes(DefaultWindowMinutes)

\* C26: with a tick at every firing of the 5-minute cadence and sends that
\* return, every user is sent the morning prompt and the evening check of
\* every day, each by a tick whose now lies in [scheduled, scheduled + 10
\* minutes]: no slot is missed, none is sent before its time or after its
\* grace window
C26_EverySlotSentInWindow ==
    /\ [](\A s \in Slots : \A slot \in {SlotMorning, SlotEvening} :
             ticks[s].pc = SendPc(slot) => InsideWindow(ticks[s], slot))
    /\ \A user_id \in UserIds :
       \A slot \in {SlotMorning, SlotEvening} :
          \A day \in Days :
             <>[](sent[SentKey(user_id, slot, day)] = 1)

\* the second user has been sent the evening check of day 0 after the first
C26_Witness ==
    /\ clock = Combine(0, Time(20, 0))
    /\ NoTickRunning
    /\ \A user_id \in DOMAIN user_rows :
       \A slot \in {SlotMorning, SlotEvening} :
          /\ sent[SentKey(user_id, slot, 0)] = 1
          /\ LastSent(user_id, slot) = 0
    /\ AlreadyTomorrow(1) # <<>>

====
